---- MODULE Spec2Model ----
(***************************************************************************)
(* Model of scripts/auto-post.js: the daily news -> article -> store        *)
(* pipeline, together with the posts table of supabase-setup.sql.           *)
(*                                                                         *)
(* Strings of the program are kept where they are ASCII.  The two          *)
(* non-ASCII category names are written "Cloud" and "Security".            *)
(***************************************************************************)
EXTENDS Integers, Sequences, FiniteSets, TLC

VARIABLES
  env,          \* which of the three environment variables are set
  pc,           \* position of main(): the orchestrator state
  error,        \* the error that ended the run, "none" while there is none
  exitCode,     \* -1 while the process runs, then 0 or 1
  feedTask,     \* per source: state of the fetchNews(source) promise
  values,       \* result slots of Promise.all(NEWS_SOURCES.map(fetchNews))
  histTask,     \* state of the fetchRecentPosts(14) promise
  histValue,    \* what fetchRecentPosts resolved to
  newsData,     \* main's local newsData, set when the outer Promise.all resolves
  recentPosts,  \* main's local recentPosts
  request,      \* the generation request in flight or answered: <<>> or <<ctx>>
  genRequests,  \* how many generation requests were sent
  article,      \* main's local article: <<>> or <<payload>>
  inserts,      \* how many insert requests were sent to the store
  sentPost,     \* the record of the insert request: <<>> or <<post>>
  insertResult, \* how the insert ended, "none" before
  published,    \* main's local published: <<>> or <<row>>
  store,        \* rows of public.posts, in insertion order
  store0,       \* the rows at process start
  feedItems,    \* (fetchNews alone) the items of the parsed feed
  candidates,   \* (fetchNews alone) the articles fetchNews returned
  categoryCounts, \* (composer alone) Object.entries(categoryCounts)
  rawText,      \* (reply handler alone) the text of the model's response
  extracted,    \* (reply handler alone) what the reply handler made of it
  lastCall,     \* (store alone) the last request the store served
  anonView      \* (store alone) ids of the posts the last anon select returned

vars == <<env, pc, error, exitCode, feedTask, values, histTask, histValue,
          newsData, recentPosts, request, genRequests, article, inserts,
          sentPost, insertResult, published, store, store0, feedItems,
          candidates, categoryCounts, rawText, extracted, lastCall, anonView>>

\* the variables used only when the composer or the reply handler runs alone
aloneVars == <<categoryCounts, rawText, extracted, lastCall, anonView>>

pipelineVars == <<env, pc, error, exitCode, feedTask, values, histTask,
                  histValue, newsData, recentPosts, request, genRequests,
                  article, inserts, sentPost, insertResult, published, store,
                  store0>>

----------------------------------------------------------------------------
(* Bounds of the model *)

\* longest feed a source returns in a full run
MaxFeedLen == 1
\* longest feed given to fetchNews when it is checked alone
MaxFeedItems == 11
\* most rows in the store at process start
MaxStoreRows == 1
\* longest model response, in tokens
MaxTextLen == 3
\* most recent posts handed to the composer when it runs alone
MaxRecentPosts == 3
\* longest model response, in tokens, when the reply handler runs alone
MaxRawLen == 5
\* most items of a feed when the freshness filter is tried on edge cases
MaxEdgeItems == 4
\* most rows of the posts table when the store is looked at alone
MaxTableRows == 2
\* the views counter is followed up to this value
MaxViews == 2

----------------------------------------------------------------------------
(* Configuration and constants of the program *)

ConfigKeys == {"SUPABASE_URL", "SUPABASE_SERVICE_KEY", "ANTHROPIC_API_KEY"}

NEWS_SOURCES == <<[category |-> "AI"], [category |-> "Cloud"], [category |-> "Security"]>>

Categories == {"AI", "Cloud", "Security"}

Sources == 1..Len(NEWS_SOURCES)

FRESHNESS_MS == 48 * 60 * 60 * 1000

PoolSize == 10

CandidateCap == 5

LookbackDays == 14

QueryLimit == 30

\* Date.now() at fetch time, in ms on the model's clock
Now == 2 * FRESHNESS_MS

\* the current calendar date, as a day number
Today == LookbackDays + 6

Min(a, b) == IF a < b THEN a ELSE b

\* all sequences over S of length at most n
SeqsUpTo(S, n) == UNION {[1..k -> S] : k \in 0..n}

----------------------------------------------------------------------------
(* fetchNews: the freshness filter and the two caps *)

\* item.pubDate: absent or empty, unparseable, or a time
NoDate == [kind |-> "none", ms |-> 0]
InvalidDate == [kind |-> "invalid", ms |-> 0]
\* a pubDate that is present and is the empty text
EmptyDate == [kind |-> "empty", ms |-> 0]
DateAt(t) == [kind |-> "time", ms |-> t]

\* a feed of the given pubDates; an item's title is its position in the feed
FeedOf(dates) == [i \in 1..Len(dates) |-> [title |-> i, pubDate |-> dates[i]]]

\* variant of IsFresh in which an item without pubDate is dropped
IsFreshDropsUndated(item, now) ==
  /\ item.pubDate.kind = "time"
  /\ now - item.pubDate.ms < FRESHNESS_MS

\* variant of IsFresh whose age test is now - t <= FRESHNESS_MS
IsFreshInclusive(item, now) ==
  IF item.pubDate.kind \in {"none", "empty"} THEN TRUE
  ELSE IF item.pubDate.kind = "invalid" THEN FALSE
  ELSE now - item.pubDate.ms <= FRESHNESS_MS

\* the filter callback: !item.pubDate holds for a missing and for an empty
\* pubDate; new Date(bad).getTime() is NaN and NaN < x is false
IsFresh(item, now) ==
  IF item.pubDate.kind \in {"none", "empty"} THEN TRUE
  ELSE IF item.pubDate.kind = "invalid" THEN FALSE
  ELSE now - item.pubDate.ms < FRESHNESS_MS

\* Array.prototype.slice(0, n)
Slice(s, n) == SubSeq(s, 1, Min(n, Len(s)))

RECURSIVE Filter(_, _)
\* Array.prototype.filter with the freshness callback
Filter(s, now) ==
  IF s = <<>> THEN <<>>
  ELSE IF IsFresh(Head(s), now) THEN <<Head(s)>> \o Filter(Tail(s), now)
  ELSE Filter(Tail(s), now)

\* the .map callback: title and pubDate of the item (link and snippet are
\* carried along by the program and read by no decision)
ToArticle(item) == [title |-> item.title, pubDate |-> item.pubDate]

\* variant of FreshArticles that filters the whole feed before it cuts
FreshArticlesFilterFirst(items, now) ==
  LET kept == Slice(Slice(Filter(items, now), PoolSize), CandidateCap)
  IN  [i \in 1..Len(kept) |-> ToArticle(kept[i])]

\* feed.items.slice(0, 10).filter(..).slice(0, 5).map(..)
FreshArticles(items, now) ==
  LET kept == Slice(Filter(Slice(items, PoolSize), now), CandidateCap)
  IN  [i \in 1..Len(kept) |-> ToArticle(kept[i])]

\* what fetchNews(source) resolves to when the feed was fetched and parsed
FetchNewsOk(i, items, now) ==
  [category |-> NEWS_SOURCES[i].category, articles |-> FreshArticles(items, now)]

\* what fetchNews(source) resolves to from its catch block
FetchNewsCaught(i) ==
  [category |-> NEWS_SOURCES[i].category, articles |-> <<>>]

----------------------------------------------------------------------------
(* The content store: public.posts behind the REST interface *)

\* an undefined property of a parsed payload; JSON.stringify leaves it out
Undefined == "undefined"

\* a column default of the posts table applies when the field is left out
OrDefault(v, d) == IF v = Undefined THEN d ELSE v

\* the row the table holds after an insert of post: identity id, defaults
NewRow(rows, post) ==
  [id       |-> Len(rows) + 1,
   title    |-> OrDefault(post.title, ""),
   category |-> OrDefault(post.category, "AI"),
   date     |-> post.date,
   status   |-> post.status,
   excerpt  |-> OrDefault(post.excerpt, ""),
   image    |-> post.image,
   body     |-> OrDefault(post.body, ""),
   views    |-> 0]

\* variant of StoreInsert in which the request replaces the newest row (an upsert)
StoreInsertOverwrite(rows, post) ==
  IF rows = <<>> THEN <<NewRow(rows, post)>>
  ELSE [rows EXCEPT ![Len(rows)] = NewRow(SubSeq(rows, 1, Len(rows) - 1), post)]

\* POST /rest/v1/posts: one row appended, nothing else touched
StoreInsert(rows, post) == Append(rows, NewRow(rows, post))

\* select=title,category,date
Project(row) == [title |-> row.title, category |-> row.category, date |-> row.date]

\* since = today - days, as a calendar date
Since(days) == Today - days

\* GET /rest/v1/posts?select=..&date=gte.<since>&order=date.desc&limit=30:
\* every answer the store may give (rows of equal date come in any order)
QueryResults(rows, since) ==
  LET idx == {i \in 1..Len(rows) : rows[i].date >= since}
      n == Cardinality(idx)
      orders == {p \in [1..n -> idx] :
                   /\ \A i, j \in 1..n : i # j => p[i] # p[j]
                   /\ \A i, j \in 1..n : i < j => rows[p[i]].date >= rows[p[j]].date}
  IN  {Slice([i \in 1..n |-> Project(rows[p[i]])], QueryLimit) : p \in orders}

----------------------------------------------------------------------------
(* generatePost, first half: the context composer *)

RECURSIVE NonEmptyBlocks(_)
\* newsData.filter((n) => n.articles.length > 0)
NonEmptyBlocks(data) ==
  IF data = <<>> THEN <<>>
  ELSE IF Len(Head(data).articles) > 0
       THEN <<Head(data)>> \o NonEmptyBlocks(Tail(data))
       ELSE NonEmptyBlocks(Tail(data))

\* one labelled block per remaining category, its articles numbered by title
NewsContext(data) ==
  LET blocks == NonEmptyBlocks(data)
  IN  [b \in 1..Len(blocks) |->
         [category |-> blocks[b].category,
          items |-> [i \in 1..Len(blocks[b].articles) |-> blocks[b].articles[i].title]]]

\* the key order of the literal { AI: 0, Cloud: 0, Security: 0 }
CategoryOrder == <<"AI", "Cloud", "Security">>

\* names an object literal inherits from Object.prototype (two of them)
InheritedNames == {"toString", "constructor"}

\* Object.entries of the literal: a count is a number n or, when nan, NaN
InitialCounts ==
  [i \in 1..Len(CategoryOrder) |->
     [key |-> CategoryOrder[i], nan |-> FALSE, n |-> 0]]

HasOwn(entries, key) == \E i \in 1..Len(entries) : entries[i].key = key

\* categoryCounts[key] !== undefined: an own count, or an inherited function
IsDefined(entries, key) == HasOwn(entries, key) \/ key \in InheritedNames

\* categoryCounts[key]++: an own number grows by one, NaN stays NaN, and an
\* inherited function is read as NaN and stored under a new own key
Increment(entries, key) ==
  IF HasOwn(entries, key)
  THEN [i \in 1..Len(entries) |->
          IF entries[i].key = key /\ ~entries[i].nan
          THEN [entries[i] EXCEPT !.n = @ + 1]
          ELSE entries[i]]
  ELSE Append(entries, [key |-> key, nan |-> TRUE, n |-> 0])

RECURSIVE CountInto(_, _)
\* recentPosts.forEach(...), from the first post to the last
CountInto(entries, posts) ==
  IF posts = <<>> THEN entries
  ELSE CountInto(IF IsDefined(entries, Head(posts).category)
                 THEN Increment(entries, Head(posts).category)
                 ELSE entries,
                 Tail(posts))

\* Object.entries(categoryCounts) after the forEach
CategoryCounts(posts) == CountInto(InitialCounts, posts)

\* (a, b) => a[1] - b[1] as the sort sees it: a NaN result is taken as 0
Compare(a, b) == IF a.nan \/ b.nan THEN 0 ELSE a.n - b.n

Reverse(s) == [i \in 1..Len(s) |-> s[Len(s) + 1 - i]]

RECURSIVE RunEnd(_, _, _)
\* the sort's first run: strictly descending or non-descending from s[1]
RunEnd(s, idx, descending) ==
  IF idx > Len(s) THEN idx - 1
  ELSE LET order == Compare(s[idx], s[idx - 1])
       IN  IF (descending /\ order >= 0) \/ (~descending /\ order < 0)
           THEN idx - 1
           ELSE RunEnd(s, idx + 1, descending)

RECURSIVE InsertionPoint(_, _, _, _)
\* binary search for the place of e in the sorted prefix (0-based bounds)
InsertionPoint(sorted, e, left, right) ==
  IF left >= right THEN left
  ELSE LET mid == left + ((right - left) \div 2)
       IN  IF Compare(e, sorted[mid + 1]) < 0
           THEN InsertionPoint(sorted, e, left, mid)
           ELSE InsertionPoint(sorted, e, mid + 1, right)

RECURSIVE BinaryInsert(_, _)
BinaryInsert(sorted, rest) ==
  IF rest = <<>> THEN sorted
  ELSE LET at == InsertionPoint(sorted, Head(rest), 0, Len(sorted))
       IN  BinaryInsert(SubSeq(sorted, 1, at) \o <<Head(rest)>>
                          \o SubSeq(sorted, at + 1, Len(sorted)),
                        Tail(rest))

\* Array.prototype.sort of a short array: first run, then binary insertion
SortEntries(s) ==
  IF Len(s) < 2 THEN s
  ELSE LET descending == Compare(s[2], s[1]) < 0
           r == RunEnd(s, 3, descending)
           run == IF descending THEN Reverse(SubSeq(s, 1, r)) ELSE SubSeq(s, 1, r)
       IN  BinaryInsert(run, SubSeq(s, r + 1, Len(s)))

\* variant of LeastUsed that takes the last of the categories with the
\* smallest count
LeastUsedLastTie(posts) ==
  LET sorted == SortEntries(CategoryCounts(posts))
      last == CHOOSE i \in 1..Len(sorted) :
                /\ Compare(sorted[i], sorted[1]) = 0
                /\ ~sorted[i].nan
                /\ \A j \in (i + 1)..Len(sorted) :
                     sorted[j].nan \/ Compare(sorted[j], sorted[1]) # 0
  IN  sorted[last].key

\* Object.entries(categoryCounts).sort((a, b) => a[1] - b[1])[0][0]
LeastUsed(posts) == SortEntries(CategoryCounts(posts))[1].key

\* variant of DedupContext that gives the category hint whatever the list
DedupContextAlwaysHint(posts) ==
  [titles |-> posts, hint |-> LeastUsed(posts)]

\* dedupContext: the rendered recent posts and the category hint, or neither
DedupContext(posts) ==
  IF Len(posts) > 0
  THEN [titles |-> posts, hint |-> LeastUsed(posts)]
  ELSE [titles |-> <<>>, hint |-> "none"]

\* the variable part of the prompt sent to the model
ComposeRequest(data, posts) ==
  [news |-> NewsContext(data), dedup |-> DedupContext(posts)]

----------------------------------------------------------------------------
(* generatePost, second half: reading the model's answer *)

\* A response text is a sequence of tokens: "{", "}", a run of prose "w",
\* and a well-formed member list whose category is AI ("mAI") or a category
\* outside the enum ("mOther").
MemberTokens == {"mAI", "mOther"}

Tokens == {"{", "}", "w"} \cup MemberTokens

ModelTexts == SeqsUpTo(Tokens, MaxTextLen)

NoMatch == <<"nomatch">>

\* variant of BraceSpan for the lazy pattern /\{[\s\S]*?\}/: the match ends
\* at the first "}" after its "{"
BraceSpanLazy(raw) ==
  LET starts == {i \in 1..Len(raw) :
                   raw[i] = "{" /\ \E j \in (i + 1)..Len(raw) : raw[j] = "}"}
  IN  IF starts = {} THEN NoMatch
      ELSE LET first == CHOOSE i \in starts : \A k \in starts : i <= k
               last == CHOOSE j \in (first + 1)..Len(raw) :
                         /\ raw[j] = "}"
                         /\ \A k \in (first + 1)..(j - 1) : raw[k] # "}"
           IN  SubSeq(raw, first, last)

\* raw.match(/\{[\s\S]*\}/): leftmost "{" that some "}" follows, then greedy
BraceSpan(raw) ==
  LET starts == {i \in 1..Len(raw) :
                   raw[i] = "{" /\ \E j \in (i + 1)..Len(raw) : raw[j] = "}"}
  IN  IF starts = {} THEN NoMatch
      ELSE LET first == CHOOSE i \in starts : \A k \in starts : i <= k
               last == CHOOSE j \in (first + 1)..Len(raw) :
                         /\ raw[j] = "}"
                         /\ \A k \in (j + 1)..Len(raw) : raw[k] # "}"
           IN  SubSeq(raw, first, last)

\* whether JSON.parse accepts the span: "{}" or "{" members "}"
JSONParses(span) ==
  \/ span = <<"{", "}">>
  \/ /\ Len(span) = 3
     /\ span[1] = "{"
     /\ span[2] \in MemberTokens
     /\ span[3] = "}"

\* the object JSON.parse returns for an accepted span
JSONValue(span) ==
  IF Len(span) = 2
  THEN [category |-> Undefined, title |-> Undefined,
        excerpt |-> Undefined, body |-> Undefined]
  ELSE [category |-> IF span[2] = "mAI" THEN "AI" ELSE "Other",
        title |-> "T", excerpt |-> "E", body |-> "B"]

NoValue == [category |-> "none", title |-> "none", excerpt |-> "none", body |-> "none"]

\* variant of ParseReply that falls back to an empty object instead of throwing
ParseReplyLenient(raw) ==
  LET m == BraceSpan(raw)
  IN  IF m # NoMatch /\ JSONParses(m)
      THEN [ok |-> TRUE, err |-> "none", value |-> JSONValue(m)]
      ELSE [ok |-> TRUE, err |-> "none", value |-> JSONValue(<<"{", "}">>)]

\* what the reply handler has produced before it ran
NoExtract == [match |-> NoMatch, ok |-> FALSE, err |-> "none", value |-> NoValue]

\* lines 174-178: match, throw on no match, JSON.parse (which may throw)
ParseReply(raw) ==
  LET m == BraceSpan(raw)
  IN  IF m = NoMatch
      THEN [ok |-> FALSE, err |-> "FormatError", value |-> NoValue]
      ELSE IF ~JSONParses(m)
           THEN [ok |-> FALSE, err |-> "SyntaxError", value |-> NoValue]
           ELSE [ok |-> TRUE, err |-> "none", value |-> JSONValue(m)]

----------------------------------------------------------------------------
(* publishPost: the record sent to the store *)

\* variant of PostOf that leaves the status to the table's default and sends
\* the excerpt as the title
PostOfDraft(a) ==
  [title |-> a.excerpt, category |-> a.category, date |-> Today,
   status |-> Undefined, excerpt |-> a.excerpt, image |-> "", body |-> a.body]

\* publishPost lines 183-193: the post object built from the article
PostOf(a) ==
  [title |-> a.title, category |-> a.category, date |-> Today,
   status |-> "published", excerpt |-> a.excerpt, image |-> "", body |-> a.body]

----------------------------------------------------------------------------
(* The run: module load, main() and the promises it awaits *)

\* a result slot no promise has filled yet
NoResult == [category |-> "none", articles |-> <<>>]

\* the feeds a source may return in a full run: one item just inside the
\* freshness window, one exactly at its edge
RunPubDates == {DateAt(Now - FRESHNESS_MS + 1), DateAt(Now - FRESHNESS_MS)}

RunFeeds == {FeedOf(d) : d \in SeqsUpTo(RunPubDates, MaxFeedLen)}

\* rows the store may hold before the run
InitRowCategories == {"Security", "Other"}

InitRowDates == {Today - LookbackDays, Today - LookbackDays - 1}

InitRows(cats) ==
  [i \in 1..Len(cats) |->
     [id |-> i, title |-> "old", category |-> cats[i][1], date |-> cats[i][2],
      status |-> "published", excerpt |-> "", image |-> "", body |-> "", views |-> 0]]

InitStores ==
  {InitRows(k) : k \in SeqsUpTo(InitRowCategories \X InitRowDates, MaxStoreRows)}

\* the state of every variable of the run before the process starts
IdleRun ==
  /\ error = "none"
  /\ exitCode = -1
  /\ feedTask = [i \in Sources |-> "idle"]
  /\ values = [i \in Sources |-> NoResult]
  /\ histTask = "idle"
  /\ histValue = <<>>
  /\ newsData = <<>>
  /\ recentPosts = <<>>
  /\ request = <<>>
  /\ genRequests = 0
  /\ article = <<>>
  /\ inserts = 0
  /\ sentPost = <<>>
  /\ insertResult = "none"
  /\ published = <<>>

\* the store has served no request
NoCall == [op |-> "none", id |-> 0]

\* the composer and the reply handler have not run on their own
AloneIdle ==
  /\ categoryCounts = <<>>
  /\ rawText = <<>>
  /\ extracted = NoExtract
  /\ lastCall = NoCall
  /\ anonView = {}

Init ==
  /\ env \in [ConfigKeys -> BOOLEAN]
  /\ store \in InitStores
  /\ store0 = store
  /\ pc = "Idle"
  /\ IdleRun
  /\ feedItems = <<>>
  /\ candidates = <<>>
  /\ AloneIdle

\* main().catch: report the error and process.exit(1)
Fail(kind) ==
  /\ error' = kind
  /\ pc' = "Failed"
  /\ exitCode' = 1

\* lines 15-22: the environment check, process.exit(1) when a value is missing
ConfigMissing ==
  /\ pc = "Idle"
  /\ \E k \in ConfigKeys : ~env[k]
  /\ Fail("ConfigurationError")
  /\ UNCHANGED <<env, feedTask, values, histTask, histValue, newsData,
                 recentPosts, request, genRequests, article, inserts, sentPost,
                 insertResult, published, store, store0, feedItems, candidates,
                 aloneVars>>

\* variant of Launch that starts main() without the environment check
LaunchUnchecked ==
  /\ pc = "Idle"
  /\ pc' = "FetchingInputs"
  /\ feedTask' = [i \in Sources |-> "pending"]
  /\ histTask' = "pending"
  /\ UNCHANGED <<env, error, exitCode, values, histValue, newsData,
                 recentPosts, request, genRequests, article, inserts, sentPost,
                 insertResult, published, store, store0, feedItems, candidates,
                 aloneVars>>

\* main() up to its first await: the three fetchNews calls and
\* fetchRecentPosts(14) are started, each up to its own first await
Launch ==
  /\ pc = "Idle"
  /\ \A k \in ConfigKeys : env[k]
  /\ pc' = "FetchingInputs"
  /\ feedTask' = [i \in Sources |-> "pending"]
  /\ histTask' = "pending"
  /\ UNCHANGED <<env, error, exitCode, values, histValue, newsData,
                 recentPosts, request, genRequests, article, inserts, sentPost,
                 insertResult, published, store, store0, feedItems, candidates,
                 aloneVars>>

\* variant of PromiseAllResolve that fills the slots in order of arrival
PromiseAllResolveArrival(vals, i, v) ==
  LET free == {k \in 1..Len(vals) : vals[k] = NoResult}
      slot == IF free = {} THEN i ELSE CHOOSE k \in free : \A m \in free : k <= m
  IN  [vals EXCEPT ![slot] = v]

\* Promise.all: the promise at index i resolved with v
PromiseAllResolve(vals, i, v) == [vals EXCEPT ![i] = v]

\* variant of FetchNewsCatch in which the error escapes fetchNews
FetchNewsCatchRethrow(i) ==
  /\ Fail("SourceFetchError")
  /\ feedTask' = [feedTask EXCEPT ![i] = "caught"]
  /\ UNCHANGED values

\* the catch block of fetchNews: warn, resolve with an empty list
FetchNewsCatch(i) ==
  /\ feedTask' = [feedTask EXCEPT ![i] = "caught"]
  /\ values' = PromiseAllResolve(values, i, FetchNewsCaught(i))
  /\ UNCHANGED <<pc, error, exitCode>>

\* the rest of fetchNews(NEWS_SOURCES[i]) once parseURL settles
SettleFeed(i) ==
  /\ pc = "FetchingInputs"
  /\ feedTask[i] = "pending"
  /\ \/ \E items \in RunFeeds :
          /\ feedTask' = [feedTask EXCEPT ![i] = "ok"]
          /\ values' = PromiseAllResolve(values, i, FetchNewsOk(i, items, Now))
          /\ UNCHANGED <<pc, error, exitCode>>
     \/ FetchNewsCatch(i)
  /\ UNCHANGED <<env, histTask, histValue, newsData, recentPosts, request,
                 genRequests, article, inserts, sentPost, insertResult, published,
                 store, store0, feedItems, candidates,
                 aloneVars>>

\* variant of HistoryFailed in which the failure escapes fetchRecentPosts
HistoryFailedRethrow(how) ==
  /\ histTask' = how
  /\ histValue' = <<>>
  /\ Fail("SourceFetchError")

\* fetchRecentPosts on !res.ok and in its catch block: warn, return []
HistoryFailed(how) ==
  /\ histTask' = how
  /\ histValue' = <<>>
  /\ UNCHANGED <<pc, error, exitCode>>

\* the rest of fetchRecentPosts(14) once the store's answer settles
SettleHistory ==
  /\ pc = "FetchingInputs"
  /\ histTask = "pending"
  /\ \/ \E posts \in QueryResults(store, Since(LookbackDays)) :
          /\ histTask' = "ok"
          /\ histValue' = posts
          /\ UNCHANGED <<pc, error, exitCode>>
     \/ HistoryFailed("http_error")
     \/ HistoryFailed("caught")
  /\ UNCHANGED <<env, feedTask, values, newsData, recentPosts, request,
                 genRequests, article, inserts, sentPost, insertResult, published,
                 store, store0, feedItems, candidates,
                 aloneVars>>

\* variant of AllSettled that is satisfied by the first settled promise (a race)
AnySettled ==
  \/ \E i \in Sources : feedTask[i] \in {"ok", "caught"}
  \/ histTask \in {"ok", "http_error", "caught"}

\* variant of AllSettled that waits for every promise to succeed
AllSucceeded ==
  /\ \A i \in Sources : feedTask[i] = "ok"
  /\ histTask = "ok"

\* both Promise.all calls are fulfilled: no promise in them is pending
AllSettled ==
  /\ \A i \in Sources : feedTask[i] \in {"ok", "caught"}
  /\ histTask \in {"ok", "http_error", "caught"}

\* lines 222-228: the await of the outer Promise.all returns
JoinInputs ==
  /\ pc = "FetchingInputs"
  /\ AllSettled
  /\ newsData' = values
  /\ recentPosts' = histValue
  /\ pc' = "ComposingContext"
  /\ UNCHANGED <<env, error, exitCode, feedTask, values, histTask, histValue,
                 request, genRequests, article, inserts, sentPost, insertResult,
                 published, store, store0, feedItems, candidates,
                 aloneVars>>

\* variant of HasNoNews without the empty-context check
HasNoNewsNever(ctx) == FALSE

\* !newsContext: the joined text is empty exactly when there is no block
HasNoNews(ctx) == ctx.news = <<>>

\* generatePost lines 102-172: compose, throw on no news, send the request
Compose ==
  /\ pc = "ComposingContext"
  /\ LET ctx == ComposeRequest(newsData, recentPosts)
     IN  IF HasNoNews(ctx)
         THEN /\ Fail("NoNewsAvailable")
              /\ UNCHANGED <<request, genRequests>>
         ELSE /\ request' = <<ctx>>
              /\ genRequests' = genRequests + 1
              /\ pc' = "Generating"
              /\ UNCHANGED <<error, exitCode>>
  /\ UNCHANGED <<env, feedTask, values, histTask, histValue, newsData,
                 recentPosts, article, inserts, sentPost, insertResult, published,
                 store, store0, feedItems, candidates,
                 aloneVars>>

\* generatePost lines 174-178 and main lines 230-234 up to the insert's await
OnModelReply(raw) ==
  /\ pc = "Generating"
  /\ LET r == ParseReply(raw)
     IN  IF r.ok
         THEN /\ article' = <<r.value>>
              /\ sentPost' = <<PostOf(r.value)>>
              /\ inserts' = inserts + 1
              /\ pc' = "Publishing"
              /\ UNCHANGED <<error, exitCode>>
         ELSE /\ Fail(r.err)
              /\ UNCHANGED <<article, inserts, sentPost>>
  /\ UNCHANGED <<env, feedTask, values, histTask, histValue, newsData,
                 recentPosts, request, genRequests, insertResult, published,
                 store, store0, feedItems, candidates,
                 aloneVars>>

\* anthropic.messages.create rejects, or the response has no text block
OnModelError ==
  /\ pc = "Generating"
  /\ Fail("GenerationError")
  /\ UNCHANGED <<env, feedTask, values, histTask, histValue, newsData,
                 recentPosts, request, genRequests, article, inserts, sentPost,
                 insertResult, published, store, store0, feedItems, candidates,
                 aloneVars>>

\* variant of InsertOk in which the response carries an empty array, so that
\* data[0] is undefined and main reports no identifier
InsertOkNoRow(rows) ==
  /\ store' = rows
  /\ insertResult' = "ok"
  /\ published' = <<>>
  /\ pc' = "Done"
  /\ exitCode' = 0
  /\ UNCHANGED error

\* publishPost lines 211-212 and main lines 235-238: res.ok, the created row
\* is returned, main resolves and the process ends with code 0
InsertOk(rows) ==
  /\ store' = rows
  /\ insertResult' = "ok"
  /\ published' = <<rows[Len(rows)]>>
  /\ pc' = "Done"
  /\ exitCode' = 0
  /\ UNCHANGED error

\* variant of InsertRejected in which res.ok is not looked at
InsertRejectedIgnored ==
  /\ insertResult' = "http_error"
  /\ published' = <<>>
  /\ pc' = "Done"
  /\ exitCode' = 0
  /\ UNCHANGED <<store, error>>

\* variant of InsertRejected that asks the model again instead of throwing
InsertRejectedRetry ==
  /\ insertResult' = "http_error"
  /\ pc' = "Generating"
  /\ UNCHANGED <<store, published, error, exitCode>>

\* publishPost lines 206-209: !res.ok, nothing was inserted, throw
InsertRejected ==
  /\ insertResult' = "http_error"
  /\ Fail("PublishError")
  /\ UNCHANGED <<store, published>>

\* the insert's fetch (or res.json()) rejects; the store may or may not
\* have processed the request before the failure
InsertThrew(rows) ==
  /\ store' = rows
  /\ insertResult' = "threw"
  /\ Fail("PublishFetchError")
  /\ UNCHANGED published

\* the rest of publishPost once the insert settles
OnInsertResponse ==
  /\ pc = "Publishing"
  /\ LET post == sentPost[1]
     IN  \/ InsertOk(StoreInsert(store, post))
         \/ InsertRejected
         \/ InsertThrew(store)
         \/ InsertThrew(StoreInsert(store, post))
  /\ UNCHANGED <<env, feedTask, values, histTask, histValue, newsData,
                 recentPosts, request, genRequests, article, inserts, sentPost,
                 store0, feedItems, candidates,
                 aloneVars>>

Next ==
  \/ ConfigMissing
  \/ Launch
  \/ \E i \in Sources : SettleFeed(i)
  \/ SettleHistory
  \/ JoinInputs
  \/ Compose
  \/ \E raw \in ModelTexts : OnModelReply(raw)
  \/ OnModelError
  \/ OnInsertResponse

Spec == Init /\ [][Next]_vars

\* every awaited call settles in the end, and a continuation that is ready
\* to run is run by the event loop
SpecLive == Spec /\ WF_vars(Next)

----------------------------------------------------------------------------
(* fetchNews on its own: one parsed feed in, one candidate list out *)

\* pubDates of a feed's items: none, just inside the window, just outside
FeedPubDates ==
  {NoDate, DateAt(Now - FRESHNESS_MS + 1), DateAt(Now - FRESHNESS_MS - 1)}

InitFeed ==
  /\ env = [k \in ConfigKeys |-> TRUE]
  /\ store = <<>>
  /\ store0 = <<>>
  /\ pc = "fetchNews:await"
  /\ IdleRun
  /\ feedItems \in {FeedOf(d) : d \in SeqsUpTo(FeedPubDates, MaxFeedItems)}
  /\ candidates = <<>>
  /\ AloneIdle

\* fetchNews lines 76-94 once parseURL resolved with the feed
FetchNewsReturns ==
  /\ pc = "fetchNews:await"
  /\ candidates' = FetchNewsOk(1, feedItems, Now).articles
  /\ pc' = "fetchNews:returned"
  /\ UNCHANGED <<env, error, exitCode, feedTask, values, histTask, histValue,
                 newsData, recentPosts, request, genRequests, article, inserts,
                 sentPost, insertResult, published, store, store0, feedItems,
                 aloneVars>>

NextFeed == FetchNewsReturns

SpecFeed == InitFeed /\ [][NextFeed]_vars

\* pubDates at the edges of the filter: missing, empty, unparseable, in the
\* future, exactly 48 hours old, one millisecond younger than that
EdgePubDates ==
  {NoDate, EmptyDate, InvalidDate, DateAt(Now + 1), DateAt(Now - FRESHNESS_MS),
   DateAt(Now - FRESHNESS_MS + 1)}

InitEdges ==
  /\ env = [k \in ConfigKeys |-> TRUE]
  /\ store = <<>>
  /\ store0 = <<>>
  /\ pc = "fetchNews:await"
  /\ IdleRun
  /\ feedItems \in {FeedOf(d) : d \in SeqsUpTo(EdgePubDates, MaxEdgeItems)}
  /\ candidates = <<>>
  /\ AloneIdle

SpecEdges == InitEdges /\ [][NextFeed]_vars

----------------------------------------------------------------------------
(* the dedup block of generatePost on its own: recent posts in, hint out *)

\* category values a stored post may carry: the column has no constraint
PostCategories == Categories \cup {"Other"} \cup InheritedNames

RecentPostsOf(cats) ==
  [i \in 1..Len(cats) |-> [title |-> "old", category |-> cats[i], date |-> Today]]

\* what fetchRecentPosts resolves to: the rows, or [] when the query failed
HistoryResult(how, posts) == IF how = "ok" THEN posts ELSE <<>>

InitBalance ==
  /\ env = [k \in ConfigKeys |-> TRUE]
  /\ store = <<>>
  /\ store0 = <<>>
  /\ pc = "dedup:start"
  /\ error = "none"
  /\ exitCode = -1
  /\ feedTask = [i \in Sources |-> "idle"]
  /\ values = [i \in Sources |-> NoResult]
  /\ histTask \in {"ok", "http_error", "caught"}
  /\ histValue \in {HistoryResult(histTask, RecentPostsOf(c)) :
                      c \in SeqsUpTo(PostCategories, MaxRecentPosts)}
  /\ newsData = <<>>
  /\ recentPosts = histValue
  /\ request = <<>>
  /\ genRequests = 0
  /\ article = <<>>
  /\ inserts = 0
  /\ sentPost = <<>>
  /\ insertResult = "none"
  /\ published = <<>>
  /\ feedItems = <<>>
  /\ candidates = <<>>
  /\ AloneIdle

\* generatePost lines 115-131: the counts exist only when there are posts
ComposeDedup ==
  /\ pc = "dedup:start"
  /\ categoryCounts' = IF Len(recentPosts) > 0
                       THEN CategoryCounts(recentPosts)
                       ELSE <<>>
  /\ request' = <<[news |-> <<>>, dedup |-> DedupContext(recentPosts)]>>
  /\ pc' = "dedup:done"
  /\ UNCHANGED <<env, error, exitCode, feedTask, values, histTask, histValue,
                 newsData, recentPosts, genRequests, article, inserts,
                 sentPost, insertResult, published, store, store0, feedItems,
                 candidates, rawText, extracted, lastCall, anonView>>

NextBalance == ComposeDedup

SpecBalance == InitBalance /\ [][NextBalance]_vars

----------------------------------------------------------------------------
(* the reply handler of generatePost on its own: response text in, article out *)

InitExtract ==
  /\ env = [k \in ConfigKeys |-> TRUE]
  /\ store = <<>>
  /\ store0 = <<>>
  /\ pc = "extract:start"
  /\ IdleRun
  /\ feedItems = <<>>
  /\ candidates = <<>>
  /\ categoryCounts = <<>>
  /\ rawText \in SeqsUpTo(Tokens, MaxRawLen)
  /\ extracted = NoExtract
  /\ lastCall = NoCall
  /\ anonView = {}

\* generatePost lines 174-178: the match, and what JSON.parse makes of it
ReadReply ==
  /\ pc = "extract:start"
  /\ extracted' = [match |-> BraceSpan(rawText),
                   ok |-> ParseReply(rawText).ok,
                   err |-> ParseReply(rawText).err,
                   value |-> ParseReply(rawText).value]
  /\ pc' = "extract:done"
  /\ UNCHANGED <<env, error, exitCode, feedTask, values, histTask, histValue,
                 newsData, recentPosts, request, genRequests, article, inserts,
                 sentPost, insertResult, published, store, store0, feedItems,
                 candidates, categoryCounts, rawText, lastCall, anonView>>

NextExtract == ReadReply

SpecExtract == InitExtract /\ [][NextExtract]_vars

----------------------------------------------------------------------------
(* the posts table on its own: the views function and the anon read policy *)

\* everything a request to the store leaves alone
storeFrame == <<env, pc, error, exitCode, feedTask, values, histTask,
                histValue, newsData, recentPosts, request, genRequests,
                article, inserts, sentPost, insertResult, published, store0,
                feedItems, candidates, categoryCounts, rawText, extracted>>

PostStatuses == {"published", "draft"}

TableRows(sts) ==
  [i \in 1..Len(sts) |->
     [id |-> i, title |-> "old", category |-> "AI", date |-> Today,
      status |-> sts[i], excerpt |-> "", image |-> "", body |-> "",
      views |-> 0]]

InitTable ==
  /\ env = [k \in ConfigKeys |-> TRUE]
  /\ store \in {TableRows(sts) : sts \in SeqsUpTo(PostStatuses, MaxTableRows)}
  /\ store0 = store
  /\ pc = "store:serving"
  /\ IdleRun
  /\ feedItems = <<>>
  /\ candidates = <<>>
  /\ AloneIdle

\* variant of IncrementPostViews without the test of the status
IncrementPostViewsAnyStatus(post_id) ==
  /\ pc = "store:serving"
  /\ \A k \in 1..Len(store) : store[k].views < MaxViews
  /\ store' = [k \in 1..Len(store) |->
                 IF store[k].id = post_id
                 THEN [store[k] EXCEPT !.views = @ + 1]
                 ELSE store[k]]
  /\ lastCall' = [op |-> "increment_post_views", id |-> post_id]
  /\ UNCHANGED <<storeFrame, anonView>>

\* increment_post_views(post_id): update public.posts set views = views + 1
\* where id = post_id and status = 'published'
IncrementPostViews(post_id) ==
  /\ pc = "store:serving"
  /\ \A k \in 1..Len(store) : store[k].views < MaxViews
  /\ store' = [k \in 1..Len(store) |->
                 IF store[k].id = post_id /\ store[k].status = "published"
                 THEN [store[k] EXCEPT !.views = @ + 1]
                 ELSE store[k]]
  /\ lastCall' = [op |-> "increment_post_views", id |-> post_id]
  /\ UNCHANGED <<storeFrame, anonView>>

\* select on posts as anon: the policy posts_public_read is the only one
\* that applies, using (status = 'published')
AnonSelect ==
  /\ pc = "store:serving"
  /\ anonView' = {store[k].id : k \in {j \in 1..Len(store) :
                                          store[j].status = "published"}}
  /\ lastCall' = [op |-> "anon_select", id |-> 0]
  /\ UNCHANGED <<storeFrame, store>>

\* an update of a post's status by an administrator (posts_admin_update)
AdminSetStatus(post_id, status) ==
  /\ pc = "store:serving"
  /\ \E k \in 1..Len(store) : store[k].id = post_id /\ store[k].status # status
  /\ store' = [k \in 1..Len(store) |->
                 IF store[k].id = post_id
                 THEN [store[k] EXCEPT !.status = status]
                 ELSE store[k]]
  /\ lastCall' = [op |-> "admin_update", id |-> post_id]
  /\ UNCHANGED <<storeFrame, anonView>>

NextTable ==
  \/ \E post_id \in 1..(MaxTableRows + 1) : IncrementPostViews(post_id)
  \/ AnonSelect
  \/ \E post_id \in 1..MaxTableRows, status \in PostStatuses :
       AdminSetStatus(post_id, status)

SpecTable == InitTable /\ [][NextTable]_vars

----------------------------------------------------------------------------
(* Properties *)

\* no promise started by main() is still pending
EveryTaskSettled ==
  /\ \A i \in Sources : feedTask[i] \in {"ok", "caught"}
  /\ histTask \in {"ok", "http_error", "caught"}

\* main() has got past its await of the outer Promise.all
PastJoin == pc \in {"ComposingContext", "Generating", "Publishing", "Done"}
            \/ (pc = "Failed" /\ error # "ConfigurationError")

FormatErrors == {"FormatError", "SyntaxError"}

\* C1: over a whole run the store is the store at start plus at most one
\* appended row: at most one insert is issued, a row appears only after an
\* insert was issued, and no row present at start is changed or removed.
C1_AtMostOneInsert ==
  /\ inserts \in {0, 1}
  /\ Len(store) \in {Len(store0), Len(store0) + 1}
  /\ Len(store) <= Len(store0) + inserts
  /\ SubSeq(store, 1, Len(store0)) = store0

C1_Witness ==
  /\ pc = "Done"
  /\ store0 # <<>>
  /\ Len(store) = Len(store0) + 1

\* C2: when every source ended with zero candidates (its fetch failed or
\* its items were all filtered out), no generation request and no insert is
\* ever sent, the store is untouched, the composer can only fail, and the
\* run ends in Failed with NoNewsAvailable and exit code 1.
C2_NoNewsIsFatal ==
  (EveryTaskSettled /\ \A i \in Sources : values[i].articles = <<>>)
    => /\ genRequests = 0
       /\ inserts = 0
       /\ store = store0
       /\ pc \in {"FetchingInputs", "ComposingContext", "Failed"}
       /\ pc = "ComposingContext" => ENABLED Compose /\ ~ENABLED (Compose /\ pc' # "Failed")
       /\ pc = "Failed" => error = "NoNewsAvailable" /\ exitCode = 1

C2_Witness ==
  /\ pc = "Failed"
  /\ error = "NoNewsAvailable"
  /\ feedTask[1] = "caught"
  /\ feedTask[2] = "ok"

\* every response text without a brace span, or whose span is not JSON, is
\* refused by the reply handler with a format error
BadTextsRefused ==
  \A t \in ModelTexts :
    (BraceSpan(t) = NoMatch \/ ~JSONParses(BraceSpan(t)))
      => ~ParseReply(t).ok /\ ParseReply(t).err \in FormatErrors

\* C3: a response with no "{" .. "}" span, or with a span that is not
\* JSON, makes the reply handler throw a format error; a run that got that
\* error is Failed with exit code 1, has no article, sent no insert and left
\* the store as it was.
C3_BadReplyFailsRun ==
  /\ BadTextsRefused
  /\ error \in FormatErrors
       => /\ pc = "Failed"
          /\ exitCode = 1
          /\ article = <<>>
          /\ inserts = 0
          /\ store = store0

C3_Witness ==
  /\ error = "FormatError"
  /\ genRequests = 1
  /\ exitCode = 1

\* C4: a source whose fetch or parse threw resolves to an empty list under
\* its own category; no run ever fails with a feed error; once every task
\* has settled the join can be taken; and the step in which a source fails
\* changes no other source's task or slot.
C4_FeedErrorIsAbsorbed ==
  /\ [](/\ \A i \in Sources :
              feedTask[i] = "caught"
                => values[i] = [category |-> NEWS_SOURCES[i].category, articles |-> <<>>]
        /\ error # "SourceFetchError"
        /\ pc = "FetchingInputs" => error = "none" /\ exitCode = -1
        /\ (pc = "FetchingInputs" /\ EveryTaskSettled) => ENABLED JoinInputs)
  /\ [][\A i \in Sources :
          (feedTask[i] = "pending" /\ feedTask'[i] = "caught")
            => /\ pc' = "FetchingInputs"
               /\ \A j \in Sources \ {i} :
                    feedTask'[j] = feedTask[j] /\ values'[j] = values[j]]_vars

C4_Witness ==
  /\ pc = "ComposingContext"
  /\ feedTask[2] = "caught"
  /\ newsData[2].articles = <<>>
  /\ newsData[1].articles # <<>>

\* C5: when the history query failed (non-2xx answer or a thrown error)
\* fetchRecentPosts resolves to the empty list, the run never fails with a
\* fetch error, the join can be taken, and the request that is sent is the
\* one composed from the same news with no recent posts.
C5_HistoryFailureIsAbsorbed ==
  histTask \in {"http_error", "caught"}
    => /\ histValue = <<>>
       /\ error # "SourceFetchError"
       /\ pc = "FetchingInputs" => error = "none" /\ exitCode = -1
       /\ (pc = "FetchingInputs" /\ EveryTaskSettled) => ENABLED JoinInputs
       /\ PastJoin => recentPosts = <<>>
       /\ request # <<>>
            => /\ request[1] = ComposeRequest(newsData, <<>>)
               /\ request[1].dedup = [titles |-> <<>>, hint |-> "none"]

C5_Witness ==
  /\ pc = "Done"
  /\ histTask = "caught"
  /\ store0 # <<>>
  /\ store0[1].date >= Since(LookbackDays)

\* C6: main() is past the join (it composes, has sent the generation
\* request, publishes, is done, or failed after start-up) only when each of
\* the three feed tasks and the history task has settled.
C6_JoinBarrier ==
  (PastJoin \/ genRequests > 0 \/ newsData # <<>>) => EveryTaskSettled

C6_Witness ==
  /\ pc = "Generating"
  /\ feedTask[1] = "caught"
  /\ feedTask[3] = "ok"
  /\ histTask = "ok"

\* the position of a category in the configured source order
SourceIndex(c) == CHOOSE i \in Sources : NEWS_SOURCES[i].category = c

\* C7: each fetch task fills the slot of its own source and no other, so
\* the merged list has the categories in the configured order AI, Cloud,
\* Security, and the news blocks of the request follow that order and hold
\* each source's own candidates.
C7_MergeOrderFixed ==
  /\ \A i \in Sources :
       IF feedTask[i] \in {"ok", "caught"}
       THEN values[i].category = NEWS_SOURCES[i].category
       ELSE values[i] = NoResult
  /\ PastJoin
       => /\ newsData = values
          /\ [i \in Sources |-> newsData[i].category] = CategoryOrder
  /\ request # <<>>
       => LET news == request[1].news
          IN  /\ \A a, b \in 1..Len(news) :
                   a < b => SourceIndex(news[a].category) < SourceIndex(news[b].category)
              /\ \A b \in 1..Len(news) :
                   LET own == newsData[SourceIndex(news[b].category)].articles
                   IN  news[b].items = [k \in 1..Len(own) |-> own[k].title]
              /\ \A i \in Sources :
                   newsData[i].articles # <<>>
                     => \E b \in 1..Len(news) : news[b].category = newsData[i].category

C7_Witness ==
  /\ pc = "Generating"
  /\ Len(request[1].news) = 2
  /\ request[1].news[1].category = "AI"
  /\ request[1].news[2].category = "Security"

\* the item at position i of the feed is among the candidates
IsCandidate(i) == \E k \in 1..Len(candidates) : candidates[k].title = i

Undated(i) == feedItems[i].pubDate.kind = "none"

OlderThanWindow(i) ==
  /\ feedItems[i].pubDate.kind = "time"
  /\ Now - feedItems[i].pubDate.ms > FRESHNESS_MS

\* how many items before position i are undated or inside the window
PassingBefore(i) ==
  Cardinality({j \in 1..(i - 1) : Undated(j) \/ ~OlderThanWindow(j)})

\* C8 as claimed: an item older than 48 hours is never a candidate, at any
\* position, and an item with no pubDate is always a candidate.
C8_UndatedAlwaysCandidate ==
  pc = "fetchNews:returned"
    => \A i \in 1..Len(feedItems) :
         /\ OlderThanWindow(i) => ~IsCandidate(i)
         /\ Undated(i) => IsCandidate(i)

\* C8 amended: an item older than 48 hours is never a candidate, at any
\* position; an item with no pubDate is never dropped by the filter: it is a
\* candidate exactly when it is among the first 10 items of the feed and
\* fewer than 5 items that pass the filter come before it.
C8_FreshnessFilter ==
  pc = "fetchNews:returned"
    => \A i \in 1..Len(feedItems) :
         /\ OlderThanWindow(i) => ~IsCandidate(i)
         /\ Undated(i)
              => (IsCandidate(i) <=> (i <= PoolSize /\ PassingBefore(i) < CandidateCap))

C8_Witness ==
  /\ pc = "fetchNews:returned"
  /\ Len(feedItems) = 7
  /\ OlderThanWindow(1)
  /\ \A i \in 2..7 : Undated(i)
  /\ IsCandidate(6)
  /\ ~IsCandidate(7)

\* the rows this run added to the store
RowsAdded == {store[k] : k \in (Len(store0) + 1)..Len(store)}

\* C9 as claimed: the category of the generated article and of every row
\* the run adds to the store is one of AI, Cloud, Security.
C9_CategoryInEnum ==
  /\ article # <<>> => article[1].category \in Categories
  /\ \A r \in RowsAdded : r.category \in Categories

\* C10: the exit code is 0 only when the insert answered with success (and
\* then the run is Done with no error); every fatal condition, a missing
\* configuration value, no news, a generation or format error, a refused or
\* failed insert, leaves the process Failed with exit code 1.
C10_ExitContract ==
  /\ exitCode \in {-1, 0, 1}
  /\ exitCode = 0 <=> pc = "Done"
  /\ exitCode = 1 <=> pc = "Failed"
  /\ pc = "Done" => insertResult = "ok" /\ error = "none" /\ published # <<>>
  /\ pc = "Failed" <=> error # "none"
  /\ error \in {"none", "ConfigurationError", "NoNewsAvailable", "GenerationError",
                "FormatError", "SyntaxError", "PublishError", "PublishFetchError"}
  /\ ((\E k \in ConfigKeys : ~env[k]) /\ pc # "Idle") => error = "ConfigurationError"
  /\ (PastJoin /\ pc # "ComposingContext" /\ \A i \in Sources : newsData[i].articles = <<>>)
       => error = "NoNewsAvailable"
  /\ insertResult = "http_error" => error = "PublishError"
  /\ insertResult = "threw" => error = "PublishFetchError"
  /\ insertResult = "none" <=> pc \notin {"Done", "Failed"} \/ error \notin {"none", "PublishError", "PublishFetchError"}

C10_Witness ==
  /\ pc = "Failed"
  /\ insertResult = "http_error"
  /\ exitCode = 1
  /\ store = store0

\* a configuration value is missing
ConfigIncomplete == \E k \in ConfigKeys : ~env[k]

\* C11: when any of the three configuration values is missing, the process
\* never leaves startup except to fail with exit code 1 and
\* ConfigurationError, and no feed fetch, no history query, no generation
\* request and no insert is ever started; the store is left as it was.
C11_ConfigCheckedFirst ==
  ConfigIncomplete =>
    /\ pc \in {"Idle", "Failed"}
    /\ \A i \in Sources : feedTask[i] = "idle"
    /\ histTask = "idle"
    /\ genRequests = 0
    /\ inserts = 0
    /\ store = store0
    /\ pc = "Failed" => (error = "ConfigurationError" /\ exitCode = 1)

C11_Witness ==
  /\ ~env["ANTHROPIC_API_KEY"]
  /\ env["SUPABASE_URL"]
  /\ env["SUPABASE_SERVICE_KEY"]
  /\ pc = "Failed"
  /\ exitCode = 1

\* the states of main() in order, and the steps between successive states
Chain == <<"Idle", "FetchingInputs", "ComposingContext", "Generating",
           "Publishing", "Done">>

Advance == {<<Chain[k], Chain[k + 1]>> : k \in 1..(Len(Chain) - 1)}

Jump == {<<Chain[k], "Failed">> : k \in 1..(Len(Chain) - 1)}

\* C12: every step either stays in FetchingInputs (one awaited promise
\* settles), advances to the next state of the chain, or jumps to Failed;
\* the generation request is issued only on ComposingContext -> Generating,
\* the insert only on Generating -> Publishing with a parsed payload, each
\* at most once, and no step leaves Done or Failed.
C12_LinearProgress ==
  [][ /\ pc' # pc => <<pc, pc'>> \in Advance \cup Jump
      /\ pc' = pc => pc = "FetchingInputs"
      /\ genRequests' # genRequests =>
            /\ <<pc, pc'>> = <<"ComposingContext", "Generating">>
            /\ genRequests = 0 /\ genRequests' = 1
            /\ request' # <<>>
      /\ inserts' # inserts =>
            /\ <<pc, pc'>> = <<"Generating", "Publishing">>
            /\ inserts = 0 /\ inserts' = 1
            /\ article' # <<>>
      /\ pc \notin {"Done", "Failed"} ]_vars

C12_Witness ==
  /\ pc = "Done"
  /\ genRequests = 1
  /\ inserts = 1
  /\ EveryTaskSettled

\* a step of the run that ends it in Failed
FailStep == Next /\ pc' = "Failed"

\* every source ended with no candidate
NothingToWrite == \A i \in 1..Len(newsData) : newsData[i].articles = <<>>

\* C13 as stated: in each non-terminal state in which something can go
\* wrong (a value is missing at startup, a fetch is still awaited, no news
\* was found, a generation or an insert is awaited) one step to Failed is
\* possible.
C13_FailedFromEveryState ==
  /\ (pc = "Idle" /\ ConfigIncomplete) => ENABLED FailStep
  /\ (pc = "FetchingInputs" /\ ~EveryTaskSettled) => ENABLED FailStep
  /\ (pc = "ComposingContext" /\ NothingToWrite) => ENABLED FailStep
  /\ pc = "Generating" => ENABLED FailStep
  /\ pc = "Publishing" => ENABLED FailStep

\* C13: one step to Failed is possible from Idle (a value is missing), from
\* ComposingContext (no news), from Generating and from Publishing, and
\* from no state of FetchingInputs: a failed fetch is absorbed there.
C13_FailedFromAllButFetching ==
  /\ (pc = "Idle" /\ ConfigIncomplete) => ENABLED FailStep
  /\ (pc = "ComposingContext" /\ NothingToWrite) => ENABLED FailStep
  /\ pc = "Generating" => ENABLED FailStep
  /\ pc = "Publishing" => ENABLED FailStep
  /\ pc = "FetchingInputs" => ~ENABLED FailStep

C13_Witness ==
  /\ pc = "FetchingInputs"
  /\ \A i \in Sources : feedTask[i] = "caught"
  /\ histTask = "caught"

\* C14: a run that ended in Failed has left the store as it found it.
C14_FailedPersistsNothing ==
  pc = "Failed" => store = store0

\* C15: the record of the one insert request has status "published", the
\* date of the run, an empty image, and the category, title, excerpt and
\* body of the parsed payload unchanged; there is a record exactly when an
\* insert was issued.
C15_RecordFromPayload ==
  /\ (sentPost # <<>>) <=> (inserts = 1)
  /\ sentPost # <<>> =>
        /\ article # <<>>
        /\ sentPost[1].status = "published"
        /\ sentPost[1].date = Today
        /\ sentPost[1].image = ""
        /\ sentPost[1].category = article[1].category
        /\ sentPost[1].title = article[1].title
        /\ sentPost[1].excerpt = article[1].excerpt
        /\ sentPost[1].body = article[1].body
        /\ DOMAIN sentPost[1] =
             {"title", "category", "date", "status", "excerpt", "image", "body"}

C15_Witness ==
  /\ pc = "Publishing"
  /\ sentPost # <<>>
  /\ sentPost[1].category = "AI"
  /\ sentPost[1].title = "T"
  /\ sentPost[1].excerpt = "E"

\* how many of the recent posts carry category c
PostsIn(c) == Cardinality({i \in 1..Len(recentPosts) : recentPosts[i].category = c})

RECURSIVE SumOf(_)
SumOf(entries) ==
  IF entries = <<>> THEN 0 ELSE Head(entries).n + SumOf(Tail(entries))

\* C16: once the counts are built from a list of recent posts, their keys
\* are exactly the three categories, every count is a number >= 0, and the
\* counts add up to the number of posts that carry one of the three
\* categories: a post with any other category adds no key.
C16_ExactlyThreeCounts ==
  (pc = "dedup:done" /\ recentPosts # <<>>) =>
    /\ Len(categoryCounts) = 3
    /\ {categoryCounts[i].key : i \in 1..Len(categoryCounts)} = Categories
    /\ \A i \in 1..Len(categoryCounts) :
         ~categoryCounts[i].nan /\ categoryCounts[i].n >= 0
    /\ SumOf(categoryCounts) =
         Cardinality({i \in 1..Len(recentPosts) :
                        recentPosts[i].category \in Categories})

\* the position of category c in the fixed order
OrderIndex(c) == CHOOSE i \in 1..Len(CategoryOrder) : CategoryOrder[i] = c

\* C17: whenever there are recent posts the hint names one of the three
\* categories, no category has fewer recent posts than it, and every
\* category before it in the order AI, Cloud, Security has strictly more.
C17_LeastUsedEarliestMin ==
  (pc = "dedup:done" /\ recentPosts # <<>>) =>
    LET hint == request[1].dedup.hint
    IN  /\ hint \in Categories
        /\ \A c \in Categories : PostsIn(hint) <= PostsIn(c)
        /\ \A c \in Categories :
             OrderIndex(c) < OrderIndex(hint) => PostsIn(c) > PostsIn(hint)

C17_Witness ==
  /\ pc = "dedup:done"
  /\ PostsIn("AI") = 1
  /\ PostsIn("Cloud") = 0
  /\ PostsIn("Security") = 0
  /\ PostsIn("toString") = 1
  /\ request[1].dedup.hint = "Cloud"

\* the places of the braces in the response text
Opens == {i \in 1..Len(rawText) : rawText[i] = "{"}

Closes == {j \in 1..Len(rawText) : rawText[j] = "}"}

FirstOpen == CHOOSE i \in Opens : \A k \in Opens : i <= k

LastClose == CHOOSE j \in Closes : \A k \in Closes : j >= k

\* the text holds a "{" and, somewhere after it, a "}"
HasBracePair == \E i \in Opens : \E j \in Closes : i < j

\* texts made of brace-free prose only
Prose == SeqsUpTo({"w"}, MaxRawLen)

\* one JSON object: the empty one, or one with the article's members
Objects == {<<"{", "}">>} \cup {<<"{", m, "}">> : m \in MemberTokens}

\* C18: for a response text with a "{" and a later "}", what is handed to
\* JSON.parse is the text from its first "{" to its last "}" and nothing
\* else, and the run goes on exactly when that span is one JSON object; a
\* text made of brace-free prose, one JSON object and brace-free prose
\* yields that object's value.
C18_FirstToLastBrace ==
  pc = "extract:done" =>
    /\ HasBracePair =>
          /\ extracted.match = SubSeq(rawText, FirstOpen, LastClose)
          /\ extracted.ok <=> extracted.match \in Objects
          /\ extracted.ok => extracted.value = JSONValue(extracted.match)
    /\ \A pre \in Prose, post \in Prose, obj \in Objects :
          rawText = pre \o obj \o post =>
            /\ extracted.ok
            /\ extracted.match = obj
            /\ extracted.value = JSONValue(obj)

C18_Witness ==
  /\ pc = "extract:done"
  /\ rawText = <<"w", "{", "mAI", "}", "w">>
  /\ extracted.ok
  /\ extracted.value.category = "AI"

Terminal == {"Done", "Failed"}

\* C19: when every awaited call settles in the end, every run reaches Done
\* or Failed; in particular no run stays at the join for ever, whichever of
\* the fetches failed.
C19_RunTerminates == <>(pc \in Terminal)

C19_Witness ==
  /\ pc = "Failed"
  /\ \A i \in Sources : feedTask[i] = "caught"
  /\ histTask = "caught"
  /\ error = "NoNewsAvailable"

\* the titles of the candidates, which are the positions of their items
CandidateTitles == [k \in 1..Len(candidates) |-> candidates[k].title]

\* item i passes the freshness filter: it has no date, or a date less than
\* 48 hours before the fetch
Passes(i) ==
  \/ Undated(i)
  \/ /\ feedItems[i].pubDate.kind = "time"
     /\ Now - feedItems[i].pubDate.ms < FRESHNESS_MS

\* how many items before position i pass the filter
PassesBefore(i) == Cardinality({j \in 1..(i - 1) : Passes(j)})

\* C20: the candidates are items of the first 10 of the feed, in feed
\* order and unchanged, at most 5 of them, and exactly those of the first 10
\* that pass the freshness filter with fewer than 5 passing items before
\* them; an item after position 10 is never a candidate.
C20_FirstFiveOfFirstTen ==
  pc = "fetchNews:returned" =>
    /\ Len(candidates) <= CandidateCap
    /\ \A k \in 1..Len(candidates) :
         /\ CandidateTitles[k] \in 1..Min(PoolSize, Len(feedItems))
         /\ candidates[k].pubDate = feedItems[CandidateTitles[k]].pubDate
    /\ \A k \in 1..(Len(candidates) - 1) :
         CandidateTitles[k] < CandidateTitles[k + 1]
    /\ \A i \in 1..Len(feedItems) :
         IsCandidate(i) <=>
           /\ i <= PoolSize
           /\ Passes(i)
           /\ PassesBefore(i) < CandidateCap

C20_Witness ==
  /\ pc = "fetchNews:returned"
  /\ Len(feedItems) = PoolSize + 1
  /\ \A i \in 1..(PoolSize - 1) : OlderThanWindow(i)
  /\ Passes(PoolSize)
  /\ Passes(PoolSize + 1)
  /\ IsCandidate(PoolSize)
  /\ ~IsCandidate(PoolSize + 1)
  /\ Len(candidates) = 1

\* identifiers of the rows the store held before the run
IdsAtStart == {store0[k].id : k \in 1..Len(store0)}

C22_DedupAndHintTogether ==
  pc = "dedup:done" =>
    LET dedup == request[1].dedup
    IN  /\ dedup.titles # <<>> <=> dedup.hint # "none"
        /\ dedup.titles # <<>> <=> recentPosts # <<>>
        /\ dedup.titles = recentPosts
        /\ dedup.hint # "none" => dedup.hint \in Categories
        /\ histTask # "ok" => (dedup.titles = <<>> /\ dedup.hint = "none")

C22_Witness ==
  /\ pc = "dedup:done"
  /\ histTask = "ok"
  /\ Len(recentPosts) = 2
  /\ recentPosts[1].category = "AI"
  /\ recentPosts[2].category = "Cloud"
  /\ request[1].dedup.titles = recentPosts
  /\ request[1].dedup.hint = "Security"

\* item i carries a pubDate that is not a timestamp
Unparseable(i) == feedItems[i].pubDate.kind \in {"invalid", "empty"}

InFuture(i) ==
  /\ feedItems[i].pubDate.kind = "time"
  /\ feedItems[i].pubDate.ms > Now

ExactlyAtWindow(i) ==
  /\ feedItems[i].pubDate.kind = "time"
  /\ Now - feedItems[i].pubDate.ms = FRESHNESS_MS

\* neither the cut to the first 10 items nor the cap of 5 can have removed i
NotCut(i) == i <= PoolSize /\ Len(candidates) < CandidateCap

\* C23 as stated: an item whose pubDate cannot be parsed is never a
\* candidate, an item dated in the future is one, and an item exactly 48
\* hours old is never one.
C23_UnparseableDropped ==
  pc = "fetchNews:returned" =>
    \A i \in 1..Len(feedItems) :
      /\ Unparseable(i) => ~IsCandidate(i)
      /\ (InFuture(i) /\ NotCut(i)) => IsCandidate(i)
      /\ ExactlyAtWindow(i) => ~IsCandidate(i)

\* C23: an item whose pubDate is a text that is not empty and cannot be
\* parsed is never a candidate; an item whose pubDate is the empty text is
\* kept like an item with no pubDate; an item dated in the future is kept;
\* an item exactly 48 hours old is never a candidate.
C23_FilterEdges ==
  pc = "fetchNews:returned" =>
    \A i \in 1..Len(feedItems) :
      /\ feedItems[i].pubDate.kind = "invalid" => ~IsCandidate(i)
      /\ (feedItems[i].pubDate.kind = "empty" /\ NotCut(i)) => IsCandidate(i)
      /\ (InFuture(i) /\ NotCut(i)) => IsCandidate(i)
      /\ ExactlyAtWindow(i) => ~IsCandidate(i)

C23_Witness ==
  /\ pc = "fetchNews:returned"
  /\ feedItems = FeedOf(<<InvalidDate, DateAt(Now + 1),
                          DateAt(Now - FRESHNESS_MS), EmptyDate>>)
  /\ CandidateTitles = <<2, 4>>

\* row r after one more view
Viewed(r) == [r EXCEPT !.views = r.views + 1]

\* C24: a call of increment_post_views(id) leaves the table with the same
\* rows, the row with that id having its views raised by exactly 1 when its
\* status is 'published' and every other row, and every other column, as
\* before; a select by the anonymous role returns exactly the posts whose
\* status is 'published' at that moment and changes nothing.
C24_ViewsAndAnonRead ==
  [][ /\ lastCall'.op = "increment_post_views" =>
           /\ Len(store') = Len(store)
           /\ \A k \in 1..Len(store) :
                store'[k] = IF store[k].id = lastCall'.id
                               /\ store[k].status = "published"
                            THEN Viewed(store[k])
                            ELSE store[k]
           /\ anonView' = anonView
      /\ lastCall'.op = "anon_select" =>
           /\ store' = store
           /\ \A k \in 1..Len(store) :
                store[k].id \in anonView' <=> store[k].status = "published" ]_vars

C24_Witness ==
  /\ Len(store) = 2
  /\ store[1].status = "published" /\ store[1].views = 1
  /\ store[2].status = "draft" /\ store[2].views = 0
  /\ store0[2].status = "draft"
  /\ lastCall = [op |-> "increment_post_views", id |-> 2]
  /\ anonView = {1}

====
